---- MODULE Spec2Model ----
(***************************************************************************)
(* vitepress-plugin-blog: the post scanner, the sidebar generator, the     *)
(* Vite plugin hooks (load, transformIndexHtml, handleHotUpdate) and the   *)
(* client-side holders that apply the HMR events.                          *)
(*                                                                         *)
(* Strings that the code takes apart (paths, urls) are sequences of        *)
(* tokens: a separator ("/" or "\\"), a name, or an extension (".md").     *)
(* JavaScript values that the code tests by type are records               *)
(* [type, v]. Times are days since the epoch.                              *)
(***************************************************************************)
EXTENDS Integers, Sequences, FiniteSets, TLC

\* ------------------------------------------------------------------ bounds

\* Most files in one walk of the posts directory.
MaxFiles == 3

\* ------------------------------------------------------- JavaScript values

Undefined == [type |-> "undefined", v |-> ""]
Null == [type |-> "null", v |-> ""]
Str(s) == [type |-> "string", v |-> s]
DateObj(iso) == [type |-> "Date", v |-> iso]
Bool(b) == [type |-> "boolean", v |-> IF b THEN "true" ELSE "false"]

\* x ?? d
Coalesce(x, d) == IF x.type \in {"undefined", "null"} THEN d ELSE x

\* ToBoolean(x)
Truthy(x) ==
  CASE x.type \in {"undefined", "null"} -> FALSE
    [] x.type = "string" -> x.v # ""
    [] x.type = "boolean" -> x.v = "true"
    [] OTHER -> TRUE

\* A JavaScript number: NaN or an integer.
NaN == [nan |-> TRUE, n |-> 0]
Num(i) == [nan |-> FALSE, n |-> i]
NumSub(a, b) == IF a.nan \/ b.nan THEN NaN ELSE Num(a.n - b.n)

\* Date.parse of a string, in days since the epoch; NaN when it is no date.
DateParseString(s) ==
  CASE s \in {"2024-01-01", "2024-01-01T00:00:00.000Z"} -> Num(19723)
    [] s \in {"2024-02-01", "2024-02-01T00:00:00.000Z"} -> Num(19754)
    [] OTHER -> NaN

\* Date.parse(x): the argument is converted to a string first; a Date's
\* string form parses back to its own time.
DateParse(x) == DateParseString(x.v)

\* ------------------------------------------------------------------ paths

ReplaceBackslashes(p) == [i \in DOMAIN p |-> IF p[i] = "\\" THEN "/" ELSE p[i]]

\* String.prototype.includes, on tokens.
Includes(hay, needle) ==
  \E i \in 1..(Len(hay) + 1) :
    /\ i + Len(needle) - 1 <= Len(hay)
    /\ SubSeq(hay, i, i + Len(needle) - 1) = needle

EndsWith(s, suffix) ==
  /\ Len(suffix) <= Len(s)
  /\ SubSeq(s, Len(s) - Len(suffix) + 1, Len(s)) = suffix

\* .replace(/\.md$/, '')
StripMd(p) == IF EndsWith(p, <<".md">>) THEN SubSeq(p, 1, Len(p) - 1) ELSE p

\* .replace(/\/index$/, '/')
CollapseIndex(p) ==
  IF EndsWith(p, <<"/", "index">>) THEN SubSeq(p, 1, Len(p) - 1) ELSE p

\* url = '/' + relativePath.replace(/\\/g, '/').replace(/\.md$/, '').replace(/\/index$/, '/')
UrlOf(relativePath) ==
  <<"/">> \o CollapseIndex(StripMd(ReplaceBackslashes(relativePath)))

\* ---------------------------------------------------------------- the files

\* What gray-matter returns for one file's frontmatter. An unquoted YAML
\* timestamp (date: 2024-02-01) is loaded as a Date, a quoted one as a string.
PublishedValues == {Undefined, Bool(TRUE), Bool(FALSE)}
DateValues ==
  {Undefined, Str("2024-01-01"), DateObj("2024-02-01T00:00:00.000Z"), Str("someday")}
CoverValues == {Undefined, Str("/cover.png")}
Frontmatter == [published : PublishedValues, date : DateValues, cover : CoverValues]

\* The i-th file the walk of docsDir/postsDir finds, relative to docsDir.
FileNames == <<"a", "b", "c", "d", "e", "f">>
RelativePathAt(i) == <<"blog", "/", "posts", "/", FileNames[i], ".md">>
TitleAt(i) == FileNames[i]

\* All walks of at most n files: the frontmatters in walk order.
Walks(n) == UNION {[1..k -> Frontmatter] : k \in 0..n}

\* ------------------------------------------------------------ scanBlogPosts

\* if (frontmatter.published === false) continue
SkipUnpublishedNever(fm) == FALSE
SkipUnpublished(fm) == fm.published = Bool(FALSE)

\* The entry pushed for the i-th file of the walk.
PostEntry(i, fm) ==
  [ title |-> Str(TitleAt(i)),
    date |-> Coalesce(fm.date, Str("")),
    url |-> UrlOf(RelativePathAt(i)),
    cover |-> Coalesce(fm.cover, Null),
    source |-> RelativePathAt(i),
    published |-> Bool(TRUE) ]

\* walkDir: the entries pushed, in walk order.
RECURSIVE WalkDir(_, _)
WalkDir(walk, i) ==
  IF i > Len(walk) THEN <<>>
  ELSE IF SkipUnpublished(walk[i]) THEN WalkDir(walk, i + 1)
  ELSE <<PostEntry(i, walk[i])>> \o WalkDir(walk, i + 1)

\* a.date ? Date.parse(a.date) : 0
SortTime(a) == IF Truthy(a.date) THEN DateParse(a.date) ELSE Num(0)

\* The comparator: bTime - aTime.
SortComparator(a, b) == NumSub(SortTime(b), SortTime(a))

\* Array.prototype.sort calls the comparator and reads a NaN result as +0.
Order(a, b) == LET r == SortComparator(a, b) IN IF r.nan THEN 0 ELSE r.n

\* Array.prototype.sort as Node runs it on an array shorter than 64: the
\* leading run is counted (and reversed when strictly descending), the rest
\* is inserted by binary insertion.
RECURSIVE RunEnd(_, _, _)
RunEnd(arr, idx, desc) ==
  IF idx > Len(arr) THEN Len(arr)
  ELSE LET o == Order(arr[idx], arr[idx - 1]) IN
       IF (desc /\ o >= 0) \/ (~desc /\ o < 0) THEN idx - 1
       ELSE RunEnd(arr, idx + 1, desc)

Reverse(s) == [i \in DOMAIN s |-> s[Len(s) + 1 - i]]

\* The position (0-based) at which pivot is inserted into arr[left+1..right].
RECURSIVE BinarySearch(_, _, _, _)
BinarySearch(arr, pivot, left, right) ==
  IF left >= right THEN left
  ELSE LET mid == left + ((right - left) \div 2) IN
       IF Order(pivot, arr[mid + 1]) < 0
       THEN BinarySearch(arr, pivot, left, mid)
       ELSE BinarySearch(arr, pivot, mid + 1, right)

\* arr[1..start] is sorted; insert arr[start+1], arr[start+2], ...
RECURSIVE BinaryInsertionSort(_, _)
BinaryInsertionSort(arr, start) ==
  IF start >= Len(arr) THEN arr
  ELSE LET pivot == arr[start + 1]
           at == BinarySearch(arr, pivot, 0, start)
           next == SubSeq(arr, 1, at) \o <<pivot>> \o SubSeq(arr, at + 1, start)
                     \o SubSeq(arr, start + 2, Len(arr))
       IN BinaryInsertionSort(next, start + 1)

ArraySort(arr) ==
  IF Len(arr) < 2 THEN arr
  ELSE LET desc == Order(arr[2], arr[1]) < 0
           run == RunEnd(arr, 3, desc)
           made == IF desc
                   THEN Reverse(SubSeq(arr, 1, run)) \o SubSeq(arr, run + 1, Len(arr))
                   ELSE arr
       IN BinaryInsertionSort(made, run)

\* scanBlogPosts(docsDir, postsDir, wordsPerMinute) over the files the walk finds.
scanBlogPosts(walk) == ArraySort(WalkDir(walk, 1))

\* ------------------------------------------------- generateSidebarFromPosts

DefaultRecentPostsCount == 5

\* The defaults of the destructured options.
DefaultSidebarOptions ==
  [ basePath |-> <<"/", "blog", "/">>,
    recentPostsCount |-> DefaultRecentPostsCount,
    allPostsLabel |-> "All posts",
    recentPostsLabel |-> "Recent posts",
    recentPostsCollapsed |-> FALSE ]

Min(a, b) == IF a < b THEN a ELSE b
Max(a, b) == IF a > b THEN a ELSE b

\* arr.slice(0, end)
SliceWhole(arr, end) == arr
SliceTo(arr, end) ==
  LET k == IF end < 0 THEN Max(Len(arr) + end, 0) ELSE Min(end, Len(arr))
  IN SubSeq(arr, 1, k)

\* A group without a collapsed key has collapsed = Undefined.
generateSidebarFromPosts(entries, options) ==
  LET recentPosts == SliceTo(entries, options.recentPostsCount)
      blog == [ text |-> Str("Blog"),
                collapsed |-> Undefined,
                items |-> << [text |-> Str(options.allPostsLabel),
                              link |-> options.basePath] >> ]
      recent == [ text |-> Str(options.recentPostsLabel),
                  collapsed |-> Bool(options.recentPostsCollapsed),
                  items |-> [i \in 1..Len(recentPosts) |->
                               [text |-> recentPosts[i].title,
                                link |-> recentPosts[i].url]] ]
  IN IF Len(recentPosts) > 0 THEN <<blog, recent>> ELSE <<blog>>

\* ------------------------------------------------------------------- JSON

\* What JSON.stringify writes for a value: a Date is written as its ISO
\* string (Date.prototype.toJSON); strings, booleans and null as themselves.
ToJSON(x) == IF x.type = "Date" THEN Str(x.v) ELSE x

\* JSON.stringify(posts), as the document it writes: per entry, each field's
\* JSON value.
StringifyPosts(entries) ==
  [i \in 1..Len(entries) |->
     [ title |-> ToJSON(entries[i].title),
       date |-> ToJSON(entries[i].date),
       url |-> entries[i].url,
       cover |-> ToJSON(entries[i].cover),
       source |-> entries[i].source,
       published |-> ToJSON(entries[i].published) ]]

\* JSON.stringify(sidebar): a key whose value is undefined is left out, which
\* reads back as undefined.
StringifySidebar(tree) == tree

\* A <script type="application/json"> block of the document: absent, or its
\* text content. The text is empty, is no JSON, is the JSON of a value that
\* is no array (json then holds the value's members), or is the JSON of an
\* array.
NoBlock == [present |-> FALSE, kind |-> "none", json |-> <<>>]
Block(json) == [present |-> TRUE, kind |-> "array", json |-> json]
EmptyBlock == [present |-> TRUE, kind |-> "empty", json |-> <<>>]
InvalidBlock == [present |-> TRUE, kind |-> "invalid", json |-> <<>>]
ObjectBlock(json) == [present |-> TRUE, kind |-> "object", json |-> json]

\* transformIndexHtml: the two tags injected into the head.
TransformIndexHtmlTags(walk, options) ==
  LET scanned == scanBlogPosts(walk) IN
  [ posts |-> Block(StringifyPosts(scanned)),
    sidebar |-> Block(StringifySidebar(generateSidebarFromPosts(scanned, options))) ]

\* if (!scriptEl?.textContent) return []
HasText(block) == block.present /\ block.kind # "empty"

\* JSON.parse(scriptEl.textContent) throws a SyntaxError
ParseThrows(block) == block.kind = "invalid"

\* Array.isArray(parsed)
IsArrayAlways(block) == TRUE
IsArray(block) == block.kind = "array"

\* The body shared by loadPostsFromDOM and loadSidebarFromDOM: [] when the
\* element or its text is missing, [] from the catch block when JSON.parse
\* throws, [] when the parsed value is no array.
ParseSnapshot(block) ==
  IF ~HasText(block) THEN <<>>
  ELSE IF ParseThrows(block) THEN <<>>
  ELSE IF IsArray(block) THEN block.json
  ELSE <<>>

\* loadPostsFromDOM
loadPostsFromDOM(doc) == ParseSnapshot(doc.posts)

\* loadSidebarFromDOM
loadSidebarFromDOM(doc) == ParseSnapshot(doc.sidebar)

EmptyDocument == [posts |-> NoBlock, sidebar |-> NoBlock]

\* ------------------------------------------------------------------ state

VARIABLES
  files,        \* the frontmatters of the .md files under docsDir/postsDir, in walk order
  postsDir,     \* blogPlugin option postsDir
  posts,        \* blogPlugin: let posts
  moduleGraph,  \* server.moduleGraph: the state of each virtual module
  lastHook,     \* the plugin hook called last, with its argument
  wsOut,        \* what the hook called last passed to server.ws.send, in order
  loadOut,      \* what the hook called last returned as module source
  document,     \* the served document's two embedded blocks
  loaded,       \* what loadPostsFromDOM returned
  stage,        \* how far the plugin (or the scan-embed-load pipeline) has run
  globalPostsRef,     \* index.ts: the shared collection
  postsListener,      \* index.ts: hmrListenerRegistered
  globalSidebarRef,   \* useBlogSidebar.ts: the shared tree
  initializedRef,     \* useBlogSidebar.ts: initializedRef
  sidebarListener,    \* useBlogSidebar.ts: hmrListenerRegistered
  inbox,              \* custom events on their way to the client, oldest first
  microtasks,         \* handlers suspended at await nextTick(), oldest first
  timers,             \* pending setTimeout callbacks, in firing order
  sidebarDom,         \* the rendered level-0 sidebar groups
  eventsSent,         \* how many events the dev server has sent this session
  lastStep,           \* the client step taken last, with the state it started from
  lastReceived,       \* per event: how many were handled, and the last one's payload
  domInOrder,         \* the sidebar as patched, event by event, in receipt order
  sidebarItems,       \* BlogSidebar.vue: the sidebarItems ref of each mounted instance
  pluginOptions,      \* blogPlugin's options: wordsPerMinute and sidebar
  postsTree,          \* docsDir/postsDir on disk: whether it exists, and its files
  scanned,            \* what scanBlogPosts returned for the tree
  blogSidebar,        \* what generateBlogSidebar returned for scanned
  matterCache,        \* gray-matter's matter.cache: the files whose text it holds unparsed
  scanLog,            \* what each scan of the tree in this process returned, in order
  walkStack           \* scanBlogPosts in progress: the walkDir calls on the stack

pluginVars == <<postsDir, moduleGraph, lastHook, wsOut, loadOut>>
clientVars == <<globalPostsRef, postsListener, globalSidebarRef, initializedRef,
                sidebarListener, inbox, microtasks, timers, sidebarDom, eventsSent,
                lastStep, lastReceived, domInOrder, sidebarItems>>
treeVars == <<pluginOptions, postsTree, scanned, blogSidebar, matterCache, scanLog,
              walkStack>>
vars == <<files, postsDir, posts, moduleGraph, lastHook, wsOut, loadOut,
          document, loaded, stage, clientVars, treeVars>>

\* ---------------------------------------------------------- the plugin

\* config.root
DocsDir == <<"/", "docs">>

VIRTUAL_MODULE_ID == "virtual:blog-posts"
VIRTUAL_SIDEBAR_ID == "virtual:blog-sidebar"
ModuleIds == {VIRTUAL_MODULE_ID, VIRTUAL_SIDEBAR_ID}

NoHook == [name |-> "none", arg |-> <<>>]
Hook(name, arg) == [name |-> name, arg |-> arg]
NoSource == [id |-> "", json |-> <<>>]

\* Nothing is served before the dev server's first request.
InitPlugin ==
  /\ moduleGraph = [id \in ModuleIds |-> "absent"]
  /\ lastHook = NoHook
  /\ wsOut = <<>>
  /\ loadOut = NoSource

NoStep ==
  [ name |-> "none", data |-> <<>>, postsBefore |-> <<>>, sidebarBefore |-> <<>>,
    domBefore |-> <<>>, writes |-> {} ]
NothingReceived ==
  [ posts |-> [count |-> 0, data |-> <<>>],
    sidebar |-> [count |-> 0, data |-> <<>>] ]

\* The module-level state of index.ts and useBlogSidebar.ts when the page
\* has loaded and nothing is mounted.
InitHolders ==
  /\ globalPostsRef = <<>>
  /\ postsListener = FALSE
  /\ globalSidebarRef = <<>>
  /\ initializedRef = FALSE
  /\ sidebarListener = FALSE
  /\ inbox = <<>>
  /\ microtasks = <<>>
  /\ timers = <<>>
  /\ eventsSent = 0
  /\ lastStep = NoStep
  /\ lastReceived = NothingReceived
  /\ sidebarItems = <<>>

\* No client is connected.
NoClient == InitHolders /\ sidebarDom = <<>> /\ domInOrder = <<>>

\* ------------------------------------------------ the posts tree on disk

\* blogPlugin's defaults: wordsPerMinute = 220, sidebar options undefined.
DefaultWordsPerMinute == 220
DefaultOptions ==
  [wordsPerMinute |-> DefaultWordsPerMinute, sidebar |-> DefaultSidebarOptions]

\* The values the options take: the defaults, and configured natural
\* numbers for wordsPerMinute and recentPostsCount, 0 included.
OptionValues ==
  { [ wordsPerMinute |-> t[1],
      sidebar |-> [DefaultSidebarOptions EXCEPT
                     !.recentPostsCount = t[2], !.recentPostsLabel = t[3]] ] :
      t \in { <<DefaultWordsPerMinute, DefaultRecentPostsCount, "Recent posts">>,
              <<DefaultWordsPerMinute, 1, "Recent posts">>,
              <<DefaultWordsPerMinute, 2, "Latest">>,
              <<110, 0, "Recent posts">>,
              <<0, 1, "Latest">> } }

\* A file body (rawContent) as chunks: a run of whitespace, or a run of
\* words with one space between neighbours.
Whitespace == [ws |-> TRUE, words |-> 0]
Words(k) == [ws |-> FALSE, words |-> k]

\* rawContent.trim()
RECURSIVE TrimStart(_)
TrimStart(body) ==
  IF body # <<>> /\ Head(body).ws THEN TrimStart(Tail(body)) ELSE body
RECURSIVE TrimEnd(_)
TrimEnd(body) ==
  IF body # <<>> /\ body[Len(body)].ws
  THEN TrimEnd(SubSeq(body, 1, Len(body) - 1))
  ELSE body
Trim(body) == TrimEnd(TrimStart(body))

\* .split(/\s+/).filter(Boolean).length: the words of the chunks, those of
\* two word runs that touch counted once where they join; the one empty
\* string split returns for an empty body is filtered out.
RECURSIVE SplitCount(_)
SplitCount(body) ==
  IF body = <<>> THEN 0
  ELSE Head(body).words
       - (IF /\ Len(body) > 1 /\ ~Head(body).ws /\ ~body[2].ws
             /\ Head(body).words > 0 /\ body[2].words > 0
          THEN 1 ELSE 0)
       + SplitCount(Tail(body))
WordCount(body) == SplitCount(Trim(body))

\* The numbers the reading time can be.
Finite(n) == [kind |-> "finite", n |-> n]
NotANumber == [kind |-> "NaN", n |-> 0]
PositiveInfinity == [kind |-> "Infinity", n |-> 0]

\* Math.round(words / wordsPerMinute) for natural numbers: 0 / 0 is NaN,
\* words / 0 is Infinity, and a half is rounded up.
RoundedQuotient(words, wordsPerMinute) ==
  IF wordsPerMinute = 0
  THEN IF words = 0 THEN NotANumber ELSE PositiveInfinity
  ELSE Finite((2 * words + wordsPerMinute) \div (2 * wordsPerMinute))

\* Math.max(1, x): NaN when x is NaN.
AtLeastOne(x) ==
  IF x.kind = "finite" THEN Finite(Max(1, x.n)) ELSE x

\* readingTime = Math.max(1, Math.round(words / wordsPerMinute))
ReadingTime(body, wordsPerMinute) ==
  AtLeastOne(RoundedQuotient(WordCount(body), wordsPerMinute))

\* The paths, relative to docsDir, of the files a tree can hold.
PathFoo == <<"blog", "/", "posts", "/", "foo", ".md">>
PathFooIndex == <<"blog", "/", "posts", "/", "foo", "/", "index", ".md">>
PathFooDotMd == <<"blog", "/", "posts", "/", "foo", "/", ".md">>
PathBar == <<"blog", "/", "posts", "/", "bar", ".md">>
TreePaths == {PathFoo, PathFooIndex, PathFooDotMd, PathBar}

\* What reading and parsing a file gives: reads is FALSE when
\* fs.readFileSync throws, parses is FALSE when it throws or matter throws
\* (front matter that is no valid YAML). No two files have the same text.
FileContents ==
  { [ reads |-> TRUE, parses |-> TRUE, title |-> Str("Winter"),
      fm |-> [published |-> Undefined, date |-> Str("2024-01-01"), cover |-> Undefined],
      body |-> <<Words(440)>> ],
    [ reads |-> TRUE, parses |-> TRUE, title |-> Str("Spring"),
      fm |-> [published |-> Bool(TRUE), date |-> Str("2024-02-01"), cover |-> Undefined],
      body |-> <<>> ],
    [ reads |-> TRUE, parses |-> TRUE, title |-> Undefined,
      fm |-> [published |-> Undefined, date |-> Undefined, cover |-> Undefined],
      body |-> <<Whitespace, Words(109), Whitespace>> ],
    [ reads |-> TRUE, parses |-> TRUE, title |-> Str("Notes"),
      fm |-> [published |-> Undefined, date |-> Str("2024-01-01"), cover |-> Undefined],
      body |-> <<Words(330)>> ],
    [ reads |-> TRUE, parses |-> TRUE, title |-> Str("Draft"),
      fm |-> [published |-> Bool(FALSE), date |-> Str("2024-02-01"), cover |-> Undefined],
      body |-> <<Words(1)>> ],
    [ reads |-> TRUE, parses |-> FALSE, title |-> Undefined,
      fm |-> [published |-> Undefined, date |-> Undefined, cover |-> Undefined],
      body |-> <<Words(2)>> ],
    [ reads |-> FALSE, parses |-> FALSE, title |-> Undefined,
      fm |-> [published |-> Undefined, date |-> Undefined, cover |-> Undefined],
      body |-> <<>> ] }

TreeFile(path, c) ==
  [ path |-> path, reads |-> c.reads, parses |-> c.parses, title |-> c.title,
    fm |-> c.fm, body |-> c.body ]
TreeFiles == {TreeFile(p, c) : p \in TreePaths, c \in FileContents}

\* Most .md files under docsDir/postsDir.
MaxTreeFiles == 3

\* The .md files in walk order; no two files have the same path.
TreeWalks ==
  { w \in UNION {[1..k -> TreeFiles] : k \in 0..MaxTreeFiles} :
      \A i, j \in 1..Len(w) : i # j => w[i].path # w[j].path }

\* docsDir/postsDir: absent, or a directory with its .md files.
NoDirectory == [exists |-> FALSE, entries |-> <<>>]
Trees == {NoDirectory} \cup {[exists |-> TRUE, entries |-> w] : w \in TreeWalks}

\* The entry pushed for a file.
TreeEntry(file, wordsPerMinute) ==
  [ title |-> Coalesce(file.title, Str("Untitled post")),
    date |-> Coalesce(file.fm.date, Str("")),
    url |-> UrlOf(file.path),
    readingTime |-> ReadingTime(file.body, wordsPerMinute),
    cover |-> Coalesce(file.fm.cover, Null),
    source |-> file.path,
    published |-> Bool(TRUE) ]

\* try { ... } catch (e) { console.warn(...) }: a file that throws is left out.
CaughtNever(file) == FALSE
Caught(file) == ~file.reads \/ ~file.parses

\* walkDir on the tree: a file is left out when it throws or is unpublished.
RECURSIVE WalkTree(_, _)
WalkTree(entries, wordsPerMinute) ==
  IF entries = <<>> THEN <<>>
  ELSE IF Caught(Head(entries)) \/ SkipUnpublished(Head(entries).fm)
       THEN WalkTree(Tail(entries), wordsPerMinute)
       ELSE <<TreeEntry(Head(entries), wordsPerMinute)>>
              \o WalkTree(Tail(entries), wordsPerMinute)

\* scanBlogPosts(docsDir, postsDir, wordsPerMinute) on a tree.
scanTree(root, wordsPerMinute) ==
  IF ~root.exists THEN <<>>
  ELSE ArraySort(WalkTree(root.entries, wordsPerMinute))

\* matter(content) keeps the file object under its text before it parses the
\* front matter, so the text of a file it throws on stays in matter.cache.
MatterCacheAfter(root, cache) ==
  IF ~root.exists THEN cache
  ELSE cache \cup { root.entries[i].path : i \in
                      { j \in 1..Len(root.entries) :
                          root.entries[j].reads /\ ~root.entries[j].parses } }

\* generateBlogSidebar(posts, options)
generateBlogSidebarAlways(entries, sidebarOptions) ==
  << [text |-> Str("Blog"), collapsed |-> Undefined, items |-> <<>>],
     [text |-> Str(sidebarOptions.recentPostsLabel), collapsed |-> Undefined,
      items |-> <<>>] >>
generateBlogSidebar(entries, sidebarOptions) ==
  LET recentPosts == SliceTo(entries, sidebarOptions.recentPostsCount)
      blog == [ text |-> Str("Blog"),
                collapsed |-> Undefined,
                items |-> << [text |-> Str(sidebarOptions.allPostsLabel),
                              link |-> sidebarOptions.basePath] >> ]
      recent == [ text |-> Str(sidebarOptions.recentPostsLabel),
                  collapsed |-> Bool(sidebarOptions.recentPostsCollapsed),
                  items |-> [i \in 1..Len(recentPosts) |->
                               [text |-> recentPosts[i].title,
                                link |-> recentPosts[i].url]] ]
  IN IF Len(recentPosts) > 0 THEN <<blog, recent>> ELSE <<blog>>

\* No tree is scanned: the options are the defaults.
NoTree ==
  /\ pluginOptions = DefaultOptions
  /\ postsTree = NoDirectory
  /\ scanned = <<>>
  /\ blogSidebar = <<>>
  /\ matterCache = {}
  /\ scanLog = <<>>
  /\ walkStack = <<>>

\* ------------------------------------------- the scan-embed-load pipeline

InitScan ==
  /\ files \in Walks(MaxFiles)
  /\ postsDir = <<"blog", "/", "posts">>
  /\ posts = <<>>
  /\ InitPlugin
  /\ document = EmptyDocument
  /\ loaded = <<>>
  /\ stage = "start"
  /\ NoClient
  /\ NoTree

\* configResolved: posts = scanBlogPosts(...)
ScanStep ==
  /\ stage = "start"
  /\ posts' = scanBlogPosts(files)
  /\ stage' = "scanned"
  /\ UNCHANGED <<files, document, loaded, pluginVars, clientVars, treeVars>>

\* transformIndexHtml: rescan, then inject both blocks.
EmbedStep ==
  /\ stage = "scanned"
  /\ posts' = scanBlogPosts(files)
  /\ document' = TransformIndexHtmlTags(files, DefaultSidebarOptions)
  /\ stage' = "embedded"
  /\ UNCHANGED <<files, loaded, pluginVars, clientVars, treeVars>>

\* The client reads the block back.
LoadStep ==
  /\ stage = "embedded"
  /\ loaded' = loadPostsFromDOM(document)
  /\ stage' = "loaded"
  /\ UNCHANGED <<files, posts, document, pluginVars, clientVars, treeVars>>

NextScan == ScanStep \/ EmbedStep \/ LoadStep

SpecScan == InitScan /\ [][NextScan]_vars

\* ------------------------------------------------- claims about the scan

\* The position in the walk of the file an entry was made from.
WalkIndex(e) == CHOOSE i \in 1..Len(FileNames) : RelativePathAt(i) = e.source

\* An entry's date is present and parses.
ValidDate(e) == Truthy(e.date) /\ ~DateParse(e.date).nan

\* C1: no entry returned by scanBlogPosts comes from a file whose
\* frontmatter sets published to false, whatever the file's other fields.
C1_UnpublishedNeverReturned ==
  stage # "start" =>
    \A k \in 1..Len(posts) :
      /\ WalkIndex(posts[k]) \in 1..Len(files)
      /\ files[WalkIndex(posts[k])].published # Bool(FALSE)

\* A scan of a walk holding an unpublished file, with a date and a cover,
\* next to a file that is returned.
C1_Witness ==
  /\ stage = "scanned"
  /\ Len(posts) > 0
  /\ \E i \in 1..Len(files) :
       /\ files[i].published = Bool(FALSE)
       /\ files[i].date # Undefined
       /\ files[i].cover # Undefined

\* C2: the returned collection is ordered by date descending, every entry
\* with an absent or unparsable date comes after all entries with a valid
\* date, and the entries without a valid date keep their walk order.
C2_DateDescendingInvalidLast ==
  stage = "scanned" =>
    \A i, j \in 1..Len(posts) :
      i < j =>
        /\ (ValidDate(posts[i]) /\ ValidDate(posts[j]))
             => DateParse(posts[i].date).n >= DateParse(posts[j].date).n
        /\ ~ValidDate(posts[i]) => ~ValidDate(posts[j])
        /\ (~ValidDate(posts[i]) /\ ~ValidDate(posts[j]))
             => WalkIndex(posts[i]) < WalkIndex(posts[j])

\* C10: the collection parsed back from the embedded block equals the
\* scanned collection, entry for entry and field for field.
C10_EmbedParseRoundTrip == stage = "loaded" => loaded = posts

\* ------------------------------------------------------ the dev server

\* Most files under docsDir/postsDir while the dev server runs.
MaxServerFiles == 2

\* The frontmatters the edits choose among.
ServerFrontmatters ==
  { [published |-> Undefined, date |-> Str("2024-01-01"), cover |-> Undefined],
    [published |-> Undefined, date |-> DateObj("2024-02-01T00:00:00.000Z"),
     cover |-> Str("/cover.png")] }

ServerWalks == UNION {[1..k -> ServerFrontmatters] : k \in 0..MaxServerFiles}

\* The values of the postsDir option: plain and with a leading "./", both
\* naming the directory docsDir/blog/posts.
PostsDirs == { <<"blog", "/", "posts">>, <<".", "/", "blog", "/", "posts">> }

\* The files a change event can name.
FileInPosts == <<"/", "docs", "/", "blog", "/", "posts", "/", "a", ".md">>
FileInPostsBackslashes ==
  <<"\\", "docs", "\\", "blog", "\\", "posts", "\\", "a", ".md">>
FileInPostsNotMd == <<"/", "docs", "/", "blog", "/", "posts", "/", "cover", ".png">>
FileElsewhere == <<"/", "docs", "/", "guide", "/", "intro", ".md">>
FileInOtherPosts ==
  <<"/", "docs", "/", "archive", "/", "blog", "/", "posts", "/", "old", ".md">>
EventFiles ==
  {FileInPosts, FileInPostsBackslashes, FileInPostsNotMd, FileElsewhere, FileInOtherPosts}

\* The names along a path: separators and "." components dropped.
Segments(p) == SelectSeq(p, LAMBDA t : t \notin {"/", "\\", "."})

\* path.resolve(docsDir, postsDir), as the names along it.
FullPostsDir(dir) == Segments(DocsDir) \o Segments(dir)

\* The file lies inside docsDir/postsDir.
InsidePostsDir(file, dir) ==
  /\ Len(Segments(file)) > Len(FullPostsDir(dir))
  /\ SubSeq(Segments(file), 1, Len(FullPostsDir(dir))) = FullPostsDir(dir)

\* A change the plugin has to act on: a .md file inside docsDir/postsDir.
Qualifying(file, dir) == InsidePostsDir(file, dir) /\ EndsWith(file, <<".md">>)

\* handleHotUpdate's test:
\* normalizedFile.includes(normalizedPostsDir) && file.endsWith('.md')
HotUpdateApplies(file, dir) ==
  /\ Includes(ReplaceBackslashes(file), ReplaceBackslashes(dir))
  /\ EndsWith(file, <<".md">>)

Message(event, data) == [event |-> event, data |-> data]

\* The source load returns for a virtual module, as the JSON it embeds.
ModuleSource(id, entries, options) ==
  [ id |-> id,
    json |-> IF id = VIRTUAL_MODULE_ID
             THEN StringifyPosts(entries)
             ELSE StringifySidebar(generateSidebarFromPosts(entries, options)) ]

\* load: posts = scanBlogPosts(...), then the source built from it.
LoadedFromCache(cached, walk) == cached
LoadedPosts(cached, walk) == scanBlogPosts(walk)

\* moduleGraph.getModuleById(id), then invalidateModule when it exists.
InvalidateModule(state) == IF state = "absent" THEN "absent" ELSE "invalid"

InitServer ==
  /\ files \in ServerWalks
  /\ postsDir \in PostsDirs
  /\ posts = <<>>
  /\ InitPlugin
  /\ document = EmptyDocument
  /\ loaded = <<>>
  /\ stage = "start"
  /\ NoClient
  /\ NoTree

\* configResolved, which Vite calls before any other hook.
configResolved ==
  /\ stage = "start"
  /\ posts' = scanBlogPosts(files)
  /\ stage' = "serving"
  /\ lastHook' = Hook("configResolved", <<>>)
  /\ wsOut' = <<>>
  /\ loadOut' = NoSource
  /\ UNCHANGED <<files, postsDir, moduleGraph, document, loaded, clientVars, treeVars>>

\* load(id) for one of the two resolved virtual ids. The dev server calls it
\* for a module it has no valid result for, and keeps the result.
load(id) ==
  /\ stage = "serving"
  /\ moduleGraph[id] # "valid"
  /\ posts' = LoadedPosts(posts, files)
  /\ loadOut' = ModuleSource(id, posts', DefaultSidebarOptions)
  /\ moduleGraph' = [moduleGraph EXCEPT ![id] = "valid"]
  /\ lastHook' = Hook("load", <<id>>)
  /\ wsOut' = <<>>
  /\ UNCHANGED <<files, postsDir, document, loaded, stage, clientVars, treeVars>>

\* transformIndexHtml
transformIndexHtml ==
  /\ stage = "serving"
  /\ posts' = scanBlogPosts(files)
  /\ document' = TransformIndexHtmlTags(files, DefaultSidebarOptions)
  /\ lastHook' = Hook("transformIndexHtml", <<>>)
  /\ wsOut' = <<>>
  /\ loadOut' = NoSource
  /\ UNCHANGED <<files, postsDir, moduleGraph, loaded, stage, clientVars, treeVars>>

\* handleHotUpdate({ file, server })
handleHotUpdate(file) ==
  /\ stage = "serving"
  /\ lastHook' = Hook("handleHotUpdate", file)
  /\ loadOut' = NoSource
  /\ IF HotUpdateApplies(file, postsDir)
     THEN /\ posts' = scanBlogPosts(files)
          /\ wsOut' =
               << Message("blog-posts-update", posts'),
                  Message("blog-sidebar-update",
                          generateSidebarFromPosts(posts', DefaultSidebarOptions)) >>
          /\ moduleGraph' = [id \in ModuleIds |-> InvalidateModule(moduleGraph[id])]
     ELSE /\ wsOut' = <<>>
          /\ UNCHANGED <<posts, moduleGraph>>
  /\ UNCHANGED <<files, postsDir, document, loaded, stage, clientVars, treeVars>>

\* The author adds, removes or rewrites posts. What the last hook call
\* returned and sent has been taken by the dev server by then.
EditFiles ==
  /\ stage = "serving"
  /\ \E walk \in ServerWalks : files' = walk /\ walk # files
  /\ lastHook' = NoHook
  /\ wsOut' = <<>>
  /\ loadOut' = NoSource
  /\ UNCHANGED <<postsDir, posts, moduleGraph, document, loaded, stage, clientVars, treeVars>>

NextServer ==
  \/ configResolved
  \/ \E id \in ModuleIds : load(id)
  \/ transformIndexHtml
  \/ \E file \in EventFiles : handleHotUpdate(file)
  \/ EditFiles

SpecServer == InitServer /\ [][NextServer]_vars

\* ------------------------------------------- claims about the dev server

HotUpdateCalled == lastHook.name = "handleHotUpdate"

\* C3: for a change to a .md file inside docsDir/postsDir, handleHotUpdate
\* rescans and sends exactly one blog-posts-update with the whole fresh
\* collection and exactly one blog-sidebar-update with the tree generated
\* from that collection.
C3_QualifyingChangeBroadcastsBoth ==
  (HotUpdateCalled /\ Qualifying(lastHook.arg, postsDir)) =>
    /\ posts = scanBlogPosts(files)
    /\ wsOut = << Message("blog-posts-update", scanBlogPosts(files)),
                  Message("blog-sidebar-update",
                          generateSidebarFromPosts(scanBlogPosts(files),
                                                   DefaultSidebarOptions)) >>

\* C4: a change to a file outside docsDir/postsDir, or inside it without the
\* .md extension, sends nothing, invalidates nothing and leaves the cached
\* collection as it was.
C4_OtherChangesIgnored ==
  [][ \A file \in EventFiles :
        (handleHotUpdate(file) /\ ~Qualifying(file, postsDir)) =>
          /\ wsOut' = <<>>
          /\ moduleGraph' = moduleGraph
          /\ posts' = posts ]_vars

\* C8: the source load returns for either virtual module encodes the scan of
\* the file set as it is at that request, not the collection cached earlier.
C8_LoadReturnsFreshScan ==
  lastHook.name = "load" =>
    loadOut = ModuleSource(lastHook.arg[1], scanBlogPosts(files), DefaultSidebarOptions)

\* A load that returned posts after the file set had changed: the document
\* embedded by an earlier transformIndexHtml holds another collection.
C8_Witness ==
  /\ lastHook.name = "load"
  /\ loadOut.id = VIRTUAL_MODULE_ID
  /\ loadOut.json # <<>>
  /\ document.posts.present
  /\ document.posts.json # loadOut.json

\* C9: after handleHotUpdate has processed a change to a .md file inside
\* docsDir/postsDir, no virtual module served before is still valid in the
\* module graph.
C9_QualifyingChangeInvalidates ==
  (HotUpdateCalled /\ Qualifying(lastHook.arg, postsDir)) =>
    \A id \in ModuleIds : moduleGraph[id] # "valid"

\* ---------------------------------------------------------- the client

\* Most custom events the dev server sends in one client session.
MaxEvents == 3

\* The collections a session's document and events carry, as JSON.parse
\* returns them: none, one and two posts.
SessionWalks ==
  { <<>>,
    << [published |-> Undefined, date |-> Str("2024-01-01"), cover |-> Undefined] >>,
    << [published |-> Undefined, date |-> Str("2024-01-01"), cover |-> Undefined],
       [published |-> Undefined, date |-> DateObj("2024-02-01T00:00:00.000Z"),
        cover |-> Str("/cover.png")] >> }
SessionCollections == {StringifyPosts(scanBlogPosts(w)) : w \in SessionWalks}
SessionTrees ==
  {StringifySidebar(generateSidebarFromPosts(scanBlogPosts(w), DefaultSidebarOptions)) :
     w \in SessionWalks}

\* s.toLowerCase()
ToLowerCase(s) ==
  CASE s = "Recent posts" -> "recent posts"
    [] s = "All posts" -> "all posts"
    [] s = "Blog" -> "blog"
    [] s = "Latest" -> "latest"
    [] OTHER -> s

\* s.includes('recent'), for the lower-cased texts above.
IncludesRecent(s) == s = "recent posts"

\* What VitePress renders for a link: the link itself for a directory, else
\* the link with the page suffix.
RenderHref(link) == IF EndsWith(link, <<"/">>) THEN link ELSE link \o <<".html">>

\* The level-0 groups VitePress renders for a sidebar tree.
Render(tree) ==
  [g \in 1..Len(tree) |->
     [ title |-> tree[g].text.v,
       items |-> [i \in 1..Len(tree[g].items) |->
                    [ text |-> tree[g].items[i].text.v,
                      href |-> RenderHref(tree[g].items[i].link) ]] ]]

\* The first index at which flags holds TRUE, 0 when there is none.
FirstIndex(flags) ==
  IF \E i \in 1..Len(flags) : flags[i]
  THEN CHOOSE i \in 1..Len(flags) : flags[i] /\ \A j \in 1..(i - 1) : ~flags[j]
  ELSE 0

\* The recent section of the data: sidebar.find(s => s.text.toLowerCase().includes('recent'))
RecentSectionIndex(tree) ==
  FirstIndex([i \in 1..Len(tree) |-> IncludesRecent(ToLowerCase(tree[i].text.v))])

\* The rendered group whose title includes 'recent'.
FirstGroupIndex(dom) == IF dom = <<>> THEN 0 ELSE 1
RecentGroupIndex(dom) ==
  FirstIndex([i \in 1..Len(dom) |-> IncludesRecent(ToLowerCase(dom[i].title))])

\* if (textEl && textEl.textContent !== item.text)
WritesText(rendered, item) == rendered.text # item.text.v

\* if (anchorEl && item.link) and neither endsWith test holds
WritesHref(rendered, item) ==
  /\ item.link # <<>>
  /\ ~EndsWith(rendered.href, item.link)
  /\ ~EndsWith(rendered.href, item.link \o <<".html">>)

\* One rendered item after the forEach body has run for it.
PatchItem(rendered, item) ==
  [ text |-> IF WritesText(rendered, item) THEN item.text.v ELSE rendered.text,
    href |-> IF WritesHref(rendered, item) THEN item.link ELSE rendered.href ]

\* patchVitePressSidebar(sidebar), on the rendered groups.
patchVitePressSidebar(tree, dom) ==
  LET s == RecentSectionIndex(tree)
      g == RecentGroupIndex(dom)
  IN IF s = 0 \/ g = 0 THEN dom
     ELSE [dom EXCEPT ![g].items =
             [i \in 1..Len(dom[g].items) |->
                IF i <= Len(tree[s].items)
                THEN PatchItem(dom[g].items[i], tree[s].items[i])
                ELSE dom[g].items[i]]]

\* The attributes patchVitePressSidebar(sidebar) assigns: group, item, attribute.
PatchWrites(tree, dom) ==
  LET s == RecentSectionIndex(tree)
      g == RecentGroupIndex(dom)
  IN IF s = 0 \/ g = 0 THEN {}
     ELSE { w \in {g} \X (1..Min(Len(dom[g].items), Len(tree[s].items))) \X {"text", "href"} :
              IF w[3] = "text"
              THEN WritesText(dom[g].items[w[2]], tree[s].items[w[2]])
              ELSE WritesHref(dom[g].items[w[2]], tree[s].items[w[2]]) }

\* The handlers' writes: globalPostsRef.value = [...newPosts] and
\* globalSidebarRef.value = [...newSidebar].
AppendedPayload(held, payload) == held \o payload
ReplacedByPayload(held, payload) == payload

\* setTimeout(() => patchVitePressSidebar(newSidebar), 50): every callback
\* has the same delay, so it fires after those set before it.
TimerSetFirst(pending, payload) == <<payload>> \o pending
TimerSet(pending, payload) == Append(pending, payload)

Step(name, data) ==
  [ name |-> name, data |-> data,
    postsBefore |-> globalPostsRef, sidebarBefore |-> globalSidebarRef,
    domBefore |-> sidebarDom, writes |-> {} ]

\* A page load: the document carries the blocks of one collection, or none,
\* and the sidebar is rendered from the site configuration.
InitClient ==
  /\ files = <<>>
  /\ postsDir = <<"blog", "/", "posts">>
  /\ posts = <<>>
  /\ InitPlugin
  /\ loaded = <<>>
  /\ stage = "start"
  /\ InitHolders
  /\ \E w \in SessionWalks :
       /\ document \in {EmptyDocument, TransformIndexHtmlTags(w, DefaultSidebarOptions)}
       /\ sidebarDom =
            Render(generateSidebarFromPosts(scanBlogPosts(w), DefaultSidebarOptions))
  /\ domInOrder = sidebarDom
  /\ NoTree

serverVars == <<files, postsDir, posts, moduleGraph, lastHook, wsOut, loadOut,
                document, loaded, stage, treeVars>>

\* A macrotask starts only when no microtask is pending.
MacrotaskMayStart == microtasks = <<>>

\* BlogAwareLayout is set up and mounted: setupHmrListener(), then onMounted.
MountLayout ==
  /\ MacrotaskMayStart
  /\ postsListener' = TRUE
  /\ globalPostsRef' =
       IF Len(globalPostsRef) = 0 /\ Len(loadPostsFromDOM(document)) > 0
       THEN loadPostsFromDOM(document)
       ELSE globalPostsRef
  /\ lastStep' = Step("MountLayout", <<>>)
  /\ UNCHANGED <<globalSidebarRef, initializedRef, sidebarListener, inbox, microtasks,
                 timers, sidebarDom, eventsSent, lastReceived, domInOrder, serverVars, sidebarItems>>

\* A component that calls useBlogSidebar() is mounted.
MountSidebarUser ==
  /\ MacrotaskMayStart
  /\ IF ~initializedRef /\ Len(loadSidebarFromDOM(document)) > 0
     THEN /\ globalSidebarRef' = loadSidebarFromDOM(document)
          /\ initializedRef' = TRUE
     ELSE UNCHANGED <<globalSidebarRef, initializedRef>>
  /\ sidebarListener' = TRUE
  /\ lastStep' = Step("MountSidebarUser", <<>>)
  /\ UNCHANGED <<globalPostsRef, postsListener, inbox, microtasks, timers, sidebarDom,
                 eventsSent, lastReceived, domInOrder, serverVars, sidebarItems>>

\* The dev server sends one custom event; its data is an array.
ServerSends ==
  /\ eventsSent < MaxEvents
  /\ eventsSent' = eventsSent + 1
  /\ \/ \E c \in SessionCollections :
          inbox' = Append(inbox, Message("blog-posts-update", c))
     \/ \E t \in SessionTrees :
          inbox' = Append(inbox, Message("blog-sidebar-update", t))
  /\ UNCHANGED <<globalPostsRef, postsListener, globalSidebarRef, initializedRef,
                 sidebarListener, microtasks, timers, sidebarDom, lastStep,
                 lastReceived, domInOrder, serverVars, sidebarItems>>

\* hot.on('blog-posts-update', ...) runs for the oldest event.
OnBlogPostsUpdate ==
  /\ MacrotaskMayStart
  /\ inbox # <<>>
  /\ Head(inbox).event = "blog-posts-update"
  /\ postsListener
  /\ inbox' = Tail(inbox)
  /\ globalPostsRef' = ReplacedByPayload(globalPostsRef, Head(inbox).data)
  /\ lastStep' = Step("blog-posts-update", Head(inbox).data)
  /\ lastReceived' = [lastReceived EXCEPT
       !.posts = [count |-> lastReceived.posts.count + 1, data |-> Head(inbox).data]]
  /\ UNCHANGED <<postsListener, globalSidebarRef, initializedRef, sidebarListener,
                 microtasks, timers, sidebarDom, eventsSent, domInOrder, serverVars, sidebarItems>>

\* hot.on('blog-sidebar-update', ...) runs for the oldest event, up to its
\* await nextTick(); the listener of each mounted BlogSidebar runs as well.
OnBlogSidebarUpdate ==
  /\ MacrotaskMayStart
  /\ inbox # <<>>
  /\ Head(inbox).event = "blog-sidebar-update"
  /\ sidebarListener
  /\ inbox' = Tail(inbox)
  /\ globalSidebarRef' = ReplacedByPayload(globalSidebarRef, Head(inbox).data)
  /\ microtasks' = Append(microtasks, Head(inbox).data)
  /\ lastStep' = Step("blog-sidebar-update", Head(inbox).data)
  /\ lastReceived' = [lastReceived EXCEPT
       !.sidebar = [count |-> lastReceived.sidebar.count + 1, data |-> Head(inbox).data]]
  /\ domInOrder' = patchVitePressSidebar(Head(inbox).data, domInOrder)
  /\ UNCHANGED <<globalPostsRef, postsListener, initializedRef, sidebarListener,
                 timers, sidebarDom, eventsSent, serverVars>>
  /\ sidebarItems' = [i \in 1..Len(sidebarItems) |->
                       ReplacedByPayload(sidebarItems[i], Head(inbox).data)]

\* An event no listener is registered for is discarded.
EventWithoutListener ==
  /\ MacrotaskMayStart
  /\ inbox # <<>>
  /\ \/ Head(inbox).event = "blog-posts-update" /\ ~postsListener
     \/ /\ Head(inbox).event = "blog-sidebar-update"
        /\ ~sidebarListener
        /\ sidebarItems = <<>>
  /\ inbox' = Tail(inbox)
  /\ lastStep' = Step("discarded", Head(inbox).data)
  /\ UNCHANGED <<globalPostsRef, postsListener, globalSidebarRef, initializedRef,
                 sidebarListener, microtasks, timers, sidebarDom, eventsSent,
                 lastReceived, domInOrder, serverVars, sidebarItems>>

\* nextTick() resolves: the handler goes on and sets the 50 ms timer.
AfterNextTick ==
  /\ microtasks # <<>>
  /\ microtasks' = Tail(microtasks)
  /\ timers' = TimerSet(timers, Head(microtasks))
  /\ UNCHANGED <<globalPostsRef, postsListener, globalSidebarRef, initializedRef,
                 sidebarListener, inbox, sidebarDom, eventsSent, lastStep,
                 lastReceived, domInOrder, serverVars, sidebarItems>>

\* The timer due first fires: patchVitePressSidebar(newSidebar).
TimerFires ==
  /\ MacrotaskMayStart
  /\ timers # <<>>
  /\ timers' = Tail(timers)
  /\ sidebarDom' = patchVitePressSidebar(Head(timers), sidebarDom)
  /\ lastStep' = [Step("patchVitePressSidebar", Head(timers)) EXCEPT
                    !.writes = PatchWrites(Head(timers), sidebarDom)]
  /\ UNCHANGED <<globalPostsRef, postsListener, globalSidebarRef, initializedRef,
                 sidebarListener, inbox, microtasks, eventsSent, lastReceived,
                 domInOrder, serverVars, sidebarItems>>

NextClient ==
  \/ MountLayout
  \/ MountSidebarUser
  \/ ServerSends
  \/ OnBlogPostsUpdate
  \/ OnBlogSidebarUpdate
  \/ EventWithoutListener
  \/ AfterNextTick
  \/ TimerFires

SpecClient == InitClient /\ [][NextClient]_vars

\* A session in which each consumer is mounted once: the events and their
\* handlers, deferred steps included, are all that runs afterwards.
FirstMountLayout == ~postsListener /\ MountLayout
FirstMountSidebarUser == ~sidebarListener /\ MountSidebarUser

NextEvents ==
  \/ FirstMountLayout
  \/ FirstMountSidebarUser
  \/ ServerSends
  \/ OnBlogPostsUpdate
  \/ OnBlogSidebarUpdate
  \/ EventWithoutListener
  \/ AfterNextTick
  \/ TimerFires

SpecEvents == InitClient /\ [][NextEvents]_vars

\* ----------------------------------------------- claims about the client

\* C5: when a blog-posts-update event carrying M entries is handled by a
\* client holding N entries, the held collection afterwards is that payload;
\* the same holds for the tree on blog-sidebar-update.
C5_UpdateReplacesWholesale ==
  /\ lastStep.name = "blog-posts-update" => globalPostsRef = lastStep.data
  /\ lastStep.name = "blog-sidebar-update" => globalSidebarRef = lastStep.data

\* A client holding two entries has handled an event carrying one.
C5_Witness ==
  /\ lastStep.name = "blog-posts-update"
  /\ Len(lastStep.postsBefore) = 2
  /\ Len(lastStep.data) = 1
  /\ Len(globalPostsRef) = 1

\* C6: a mount that happens after the store was initialised (an earlier
\* mount of that consumer) or after a broadcast was applied leaves the held
\* collection and the held tree as they were; the stores change in no step
\* other than a mount or an event handler.
C6_InitialisedAtMostOnce ==
  [][ /\ ((MountLayout \/ MountSidebarUser)
            /\ (postsListener \/ lastReceived.posts.count > 0))
          => globalPostsRef' = globalPostsRef
      /\ ((MountLayout \/ MountSidebarUser)
            /\ (sidebarListener \/ lastReceived.sidebar.count > 0))
          => globalSidebarRef' = globalSidebarRef
      /\ (globalPostsRef' # globalPostsRef) => (MountLayout \/ OnBlogPostsUpdate)
      /\ (globalSidebarRef' # globalSidebarRef)
          => (MountSidebarUser \/ OnBlogSidebarUpdate) ]_vars

\* Every handler and every deferred patch has run.
Quiescent == inbox = <<>> /\ microtasks = <<>> /\ timers = <<>>

\* Each rendered item of the recent group that has a counterpart in the tree
\* shows the counterpart's text and points to its link.
ShowsTree(dom, tree) ==
  LET s == RecentSectionIndex(tree)
      g == RecentGroupIndex(dom)
  IN (s # 0 /\ g # 0) =>
       \A i \in 1..Min(Len(dom[g].items), Len(tree[s].items)) :
         /\ dom[g].items[i].text = tree[s].items[i].text.v
         /\ \/ EndsWith(dom[g].items[i].href, tree[s].items[i].link)
            \/ EndsWith(dom[g].items[i].href, tree[s].items[i].link \o <<".html">>)

InitTree ==
  /\ files = <<>>
  /\ postsDir = <<"blog", "/", "posts">>
  /\ posts = <<>>
  /\ InitPlugin
  /\ document = EmptyDocument
  /\ loaded = <<>>
  /\ stage = "start"
  /\ NoClient
  /\ pluginOptions \in OptionValues
  /\ postsTree \in Trees
  /\ scanned = <<>>
  /\ blogSidebar = <<>>
  /\ matterCache = {}
  /\ scanLog = <<>>
  /\ walkStack = <<>>

\* scanBlogPosts(docsDir, postsDir, wordsPerMinute), the first scan of the
\* process: matter keeps the text of each file it throws on.
ScanTreeStep ==
  /\ stage = "start"
  /\ scanned' = scanTree(postsTree, pluginOptions.wordsPerMinute)
  /\ matterCache' = MatterCacheAfter(postsTree, matterCache)
  /\ scanLog' = Append(scanLog, scanned')
  /\ stage' = "scanned"
  /\ UNCHANGED <<files, posts, document, loaded, pluginVars, clientVars,
                 pluginOptions, postsTree, blogSidebar, walkStack>>

\* generateBlogSidebar(posts, options) on the scanned collection
GenerateSidebarStep ==
  /\ stage = "scanned"
  /\ blogSidebar' = generateBlogSidebar(scanned, pluginOptions.sidebar)
  /\ stage' = "generated"
  /\ UNCHANGED <<files, posts, document, loaded, pluginVars, clientVars,
                 pluginOptions, postsTree, scanned, matterCache, scanLog, walkStack>>

NextTree == ScanTreeStep \/ GenerateSidebarStep

SpecTree == InitTree /\ [][NextTree]_vars

\* ------------------------------------------------- claims about the tree

\* The 'all posts' group of the configured options.
AllPostsGroup(sidebarOptions) ==
  [ text |-> Str("Blog"),
    collapsed |-> Undefined,
    items |-> << [text |-> Str(sidebarOptions.allPostsLabel),
                  link |-> sidebarOptions.basePath] >> ]

\* C11: the 'all posts' group comes first; a recent group is emitted only
\* for a non-empty collection, and it holds exactly the first
\* min(recentPostsCount, number of entries) entries in input order, each as
\* {text: title, link: url}.
C11_RecentGroupIsPrefix ==
  stage = "generated" =>
    LET k == Min(pluginOptions.sidebar.recentPostsCount, Len(scanned))
    IN /\ Len(blogSidebar) \in {1, 2}
       /\ blogSidebar[1] = AllPostsGroup(pluginOptions.sidebar)
       /\ Len(blogSidebar) = 2 =>
            /\ Len(scanned) > 0
            /\ blogSidebar[2].text = Str(pluginOptions.sidebar.recentPostsLabel)
            /\ blogSidebar[2].items =
                 [i \in 1..k |-> [text |-> scanned[i].title, link |-> scanned[i].url]]

\* recentPostsCount 1 with three posts: one item, the most recent post.
C11_Witness ==
  /\ stage = "generated"
  /\ pluginOptions.sidebar.recentPostsCount = 1
  /\ Len(scanned) = 3
  /\ Len(blogSidebar) = 2
  /\ Len(blogSidebar[2].items) = 1
  /\ blogSidebar[2].items[1].link = scanned[1].url

C13_ReadingTimeAtLeastOne ==
  stage # "start" =>
    \A k \in 1..Len(scanned) :
      /\ scanned[k].readingTime.kind = "finite"
      /\ scanned[k].readingTime.n >= 1

\* C14: when docsDir/postsDir does not exist or holds no .md file, the scan
\* returns the empty collection and the tree generated from it is the 'all
\* posts' group alone.
C14_NothingToScan ==
  (~postsTree.exists \/ postsTree.entries = <<>>) =>
    /\ stage # "start" => scanned = <<>>
    /\ stage = "generated" => blogSidebar = <<AllPostsGroup(pluginOptions.sidebar)>>

\* The tree has been generated for a directory that does not exist.
C14_Witness ==
  /\ ~postsTree.exists
  /\ stage = "generated"
  /\ Len(blogSidebar) = 1

\* The files of the tree a scan has to return: those that parse and are not
\* unpublished.
Returnable(file) == file.reads /\ file.parses /\ file.fm.published # Bool(FALSE)

\* C15: when reading or parsing one file fails, only that file is missing:
\* the scan returns normally with exactly one entry for every other .md file
\* that is not unpublished, wherever it sits in the walk.
C15_FailingFileAloneIsMissing ==
  (stage # "start" /\ postsTree.exists) =>
    /\ \A i \in 1..Len(postsTree.entries) :
         Returnable(postsTree.entries[i]) =>
           \E k \in 1..Len(scanned) : scanned[k].source = postsTree.entries[i].path
    /\ \A k \in 1..Len(scanned) :
         \E i \in 1..Len(postsTree.entries) :
           /\ Returnable(postsTree.entries[i])
           /\ scanned[k].source = postsTree.entries[i].path
    /\ Len(scanned) =
         Cardinality({i \in 1..Len(postsTree.entries) : Returnable(postsTree.entries[i])})

\* The second of three files fails; the files before and after it are
\* returned.
C15_Witness ==
  /\ stage = "scanned"
  /\ Len(postsTree.entries) = 3
  /\ ~postsTree.entries[2].parses
  /\ Returnable(postsTree.entries[1])
  /\ Returnable(postsTree.entries[3])
  /\ Len(scanned) = 2

\* C16: within one scan no two returned entries have the same url.
C16_UrlsAreUnique ==
  stage # "start" =>
    \A i, j \in 1..Len(scanned) : i # j => scanned[i].url # scanned[j].url

\* --------------------------------------- one sidebar event on a rendered page

\* A post in a directory of docsDir/postsDir that is itself named blog/posts.
PathNestedFoo ==
  <<"blog", "/", "posts", "/", "blog", "/", "posts", "/", "foo", ".md">>

\* A published post that parses.
Post(path, title, date) ==
  TreeFile(path,
           [ reads |-> TRUE, parses |-> TRUE, title |-> Str(title),
             fm |-> [published |-> Undefined, date |-> Str(date), cover |-> Undefined],
             body |-> <<>> ])

\* The posts behind the rendered sidebar and behind the event's tree.
PatchFiles ==
  { Post(PathFoo, "Winter", "2024-01-01"), Post(PathFoo, "Spring", "2024-02-01"),
    Post(PathBar, "Notes", "2024-01-01"), Post(PathNestedFoo, "Notes", "2024-02-01") }
PatchWalks ==
  { w \in UNION {[1..k -> PatchFiles] : k \in 0..2} :
      \A i, j \in 1..Len(w) : i # j => w[i].path # w[j].path }

\* The configured recentPostsLabel.
PatchLabels == {"Recent posts", "Latest"}
PatchOptions(label) ==
  [DefaultOptions EXCEPT !.sidebar.recentPostsLabel = label]

\* The trees the plugin generates under a label, as JSON.parse returns them.
PatchTrees(label) ==
  { StringifySidebar(
      generateSidebarFromPosts(
        scanTree([exists |-> TRUE, entries |-> w], DefaultWordsPerMinute),
        PatchOptions(label).sidebar)) : w \in PatchWalks }

\* What the page shows: the sidebar rendered from such a tree, or no sidebar.
PatchDoms(label) == {<<>>} \cup {Render(t) : t \in PatchTrees(label)}

\* A page whose useBlogSidebar consumer is mounted, with one event arriving.
InitPatch ==
  /\ files = <<>>
  /\ postsDir = <<"blog", "/", "posts">>
  /\ posts = <<>>
  /\ InitPlugin
  /\ document = EmptyDocument
  /\ loaded = <<>>
  /\ stage = "start"
  /\ postsTree = NoDirectory
  /\ scanned = <<>>
  /\ blogSidebar = <<>>
  /\ matterCache = {}
  /\ scanLog = <<>>
  /\ walkStack = <<>>
  /\ globalPostsRef = <<>>
  /\ postsListener = FALSE
  /\ globalSidebarRef = <<>>
  /\ initializedRef = FALSE
  /\ sidebarListener = TRUE
  /\ microtasks = <<>>
  /\ timers = <<>>
  /\ eventsSent = 1
  /\ lastStep = NoStep
  /\ lastReceived = NothingReceived
  /\ sidebarItems = <<>>
  /\ \E label \in PatchLabels :
       /\ pluginOptions = PatchOptions(label)
       /\ sidebarDom \in PatchDoms(label)
       /\ \E t \in PatchTrees(label) : inbox = <<Message("blog-sidebar-update", t)>>
  /\ domInOrder = sidebarDom

NextPatch ==
  \/ OnBlogSidebarUpdate
  \/ AfterNextTick
  \/ TimerFires

SpecPatch == InitPatch /\ [][NextPatch]_vars

\* -------------------------------------- claims about the sidebar patch

Patched == lastStep.name = "patchVitePressSidebar"

\* The group whose text is the label, compared without regard to case.
LabelledSectionIndex(tree, label) ==
  FirstIndex([i \in 1..Len(tree) |-> ToLowerCase(tree[i].text.v) = ToLowerCase(label)])
LabelledGroupIndex(dom, label) ==
  FirstIndex([i \in 1..Len(dom) |-> ToLowerCase(dom[i].title) = ToLowerCase(label)])

\* The sidebar after the items of the group carrying the label are patched.
PatchedByLabel(tree, dom, label) ==
  LET s == LabelledSectionIndex(tree, label)
      g == LabelledGroupIndex(dom, label)
  IN IF s = 0 \/ g = 0 THEN dom
     ELSE [dom EXCEPT ![g].items =
             [i \in 1..Len(dom[g].items) |->
                IF i <= Len(tree[s].items)
                THEN PatchItem(dom[g].items[i], tree[s].items[i])
                ELSE dom[g].items[i]]]

\* C18: for every configured recentPostsLabel the patch finds the recent
\* group, in the new tree and among the rendered groups, by a
\* case-insensitive match against that label, and patches that group and no
\* other.
C18_RecentGroupFoundByLabel ==
  Patched =>
    sidebarDom = PatchedByLabel(lastStep.data, lastStep.domBefore,
                                pluginOptions.sidebar.recentPostsLabel)

\* A rendered href points to a link: it is the link, or the link's page.
PointsTo(href, link) == href = link \/ href = link \o <<".html">>

\* The value a write replaces and the value it assigns.
WrittenOver(w) ==
  LET rendered == lastStep.domBefore[w[1]].items[w[2]]
  IN IF w[3] = "text" THEN rendered.text ELSE rendered.href
WrittenValue(w) ==
  LET item == lastStep.data[RecentSectionIndex(lastStep.data)].items[w[2]]
  IN IF w[3] = "text" THEN item.text.v ELSE item.link

\* C19: each rendered item of the recent group with a counterpart at the same
\* index in the new tree is written only where it differs, and afterwards
\* shows the new text and points to the new link; no item of another group
\* is written.
C19_ItemsPatchedWhereTheyDiffer ==
  Patched =>
    LET label == pluginOptions.sidebar.recentPostsLabel
        s == LabelledSectionIndex(lastStep.data, label)
        g == LabelledGroupIndex(lastStep.domBefore, label)
    IN /\ Len(sidebarDom) = Len(lastStep.domBefore)
       /\ \A w \in lastStep.writes : w[1] = g /\ WrittenOver(w) # WrittenValue(w)
       /\ \A h \in 1..Len(sidebarDom) : h # g => sidebarDom[h] = lastStep.domBefore[h]
       /\ (s # 0 /\ g # 0) =>
            \A i \in 1..Min(Len(sidebarDom[g].items), Len(lastStep.data[s].items)) :
              /\ sidebarDom[g].items[i].text = lastStep.data[s].items[i].text.v
              /\ PointsTo(sidebarDom[g].items[i].href, lastStep.data[s].items[i].link)

\* No rendered group has a title the patch takes for the recent group.
NoRecentGroupRendered(dom) ==
  \A g \in 1..Len(dom) : ~IncludesRecent(ToLowerCase(dom[g].title))

\* C20: when the recent group cannot be found among the rendered groups, or
\* nothing is rendered, handling a blog-sidebar-update event changes no
\* rendered element, and the held tree is the event's payload.
C20_NoGroupNoPatch ==
  (Patched /\ NoRecentGroupRendered(lastStep.domBefore)) =>
    /\ sidebarDom = lastStep.domBefore
    /\ lastStep.writes = {}
    /\ globalSidebarRef = lastStep.data

\* The event's tree has a recent group with items, the page renders the
\* 'all posts' group alone, and the patch has run.
C20_Witness ==
  /\ Patched
  /\ RecentSectionIndex(lastStep.data) # 0
  /\ Len(lastStep.domBefore) = 1
  /\ NoRecentGroupRendered(lastStep.domBefore)
  /\ sidebarDom = lastStep.domBefore

\* ------------------------------------------- BlogSidebar instances as well

\* Most BlogSidebar instances mounted in one session.
MaxInstances == 2

\* A BlogSidebar is mounted: its own sidebarItems ref, loaded from the
\* document, and its own listener.
MountBlogSidebar ==
  /\ MacrotaskMayStart
  /\ Len(sidebarItems) < MaxInstances
  /\ sidebarItems' =
       Append(sidebarItems,
              IF Len(loadSidebarFromDOM(document)) > 0
              THEN loadSidebarFromDOM(document)
              ELSE <<>>)
  /\ lastStep' = Step("MountBlogSidebar", <<>>)
  /\ UNCHANGED <<globalPostsRef, postsListener, globalSidebarRef, initializedRef,
                 sidebarListener, inbox, microtasks, timers, sidebarDom, eventsSent,
                 lastReceived, domInOrder, serverVars>>

\* A sidebar event arrives when only BlogSidebar instances listen.
OnBlogSidebarUpdateInstances ==
  /\ MacrotaskMayStart
  /\ inbox # <<>>
  /\ Head(inbox).event = "blog-sidebar-update"
  /\ ~sidebarListener
  /\ sidebarItems # <<>>
  /\ inbox' = Tail(inbox)
  /\ sidebarItems' = [i \in 1..Len(sidebarItems) |->
                       ReplacedByPayload(sidebarItems[i], Head(inbox).data)]
  /\ lastStep' = Step("BlogSidebar blog-sidebar-update", Head(inbox).data)
  /\ UNCHANGED <<globalPostsRef, postsListener, globalSidebarRef, initializedRef,
                 sidebarListener, microtasks, timers, sidebarDom, eventsSent,
                 lastReceived, domInOrder, serverVars>>

NextConsumers ==
  \/ MountLayout
  \/ MountSidebarUser
  \/ MountBlogSidebar
  \/ ServerSends
  \/ OnBlogPostsUpdate
  \/ OnBlogSidebarUpdate
  \/ OnBlogSidebarUpdateInstances
  \/ EventWithoutListener
  \/ AfterNextTick
  \/ TimerFires

SpecConsumers == InitClient /\ [][NextConsumers]_vars

\* C17: the navigation tree has one holder per session: all mounted
\* consumers read the same tree at every moment, and once a
\* blog-sidebar-update event has been handled every consumer reads its tree,
\* a consumer mounted after the event included.
C17_OneHolderOfTheTree ==
  \A i \in 1..Len(sidebarItems) :
    /\ \A j \in 1..Len(sidebarItems) : sidebarItems[i] = sidebarItems[j]
    /\ sidebarListener => sidebarItems[i] = globalSidebarRef
    /\ lastReceived.sidebar.count > 0 => sidebarItems[i] = lastReceived.sidebar.data

\* ------------------------------------- a page whose snapshot may be unusable

\* The documents a client can be loaded with: both blocks missing, empty, no
\* JSON, the JSON of an object, or as transformIndexHtml wrote them.
SnapshotDocuments ==
  { [posts |-> NoBlock, sidebar |-> NoBlock],
    [posts |-> EmptyBlock, sidebar |-> EmptyBlock],
    [posts |-> InvalidBlock, sidebar |-> InvalidBlock] }
  \cup
  { [posts |-> ObjectBlock(TransformIndexHtmlTags(w, DefaultSidebarOptions).posts.json),
     sidebar |-> ObjectBlock(TransformIndexHtmlTags(w, DefaultSidebarOptions).sidebar.json)] :
      w \in SessionWalks \ {<<>>} }
  \cup
  { TransformIndexHtmlTags(w, DefaultSidebarOptions) : w \in SessionWalks \ {<<>>} }

InitSnapshot ==
  /\ files = <<>>
  /\ postsDir = <<"blog", "/", "posts">>
  /\ posts = <<>>
  /\ InitPlugin
  /\ loaded = <<>>
  /\ stage = "start"
  /\ InitHolders
  /\ document \in SnapshotDocuments
  /\ \E w \in SessionWalks :
       sidebarDom = Render(generateSidebarFromPosts(scanBlogPosts(w), DefaultSidebarOptions))
  /\ domInOrder = sidebarDom
  /\ NoTree

SpecSnapshot == InitSnapshot /\ [][NextClient]_vars

\* ---------------------------------- claims about an unusable snapshot

\* The block cannot be used: absent, empty, no valid JSON, or no array.
Unusable(block) == ~block.present \/ block.kind \in {"empty", "invalid", "object"}

Thrown == [id |-> "TypeError", json |-> <<>>]

\* load(id) called on the plugin object before configResolved has assigned
\* docsDir: the first statement of scanBlogPosts throws, posts is not
\* assigned and nothing is returned.
loadBeforeConfigResolved(id) ==
  /\ stage = "start"
  /\ loadOut' = Thrown
  /\ lastHook' = Hook("load", <<id>>)
  /\ wsOut' = <<>>
  /\ UNCHANGED <<files, postsDir, posts, moduleGraph, document, loaded, stage,
                 clientVars, treeVars>>

NextHooks ==
  \/ NextServer
  \/ \E id \in ModuleIds : loadBeforeConfigResolved(id)

SpecHooks == InitServer /\ [][NextHooks]_vars

MaxScans == 3

\* matter(content) finds the text in matter.cache and returns the object it
\* kept there, without parsing: data is {} and content is the whole text,
\* front matter block included.
MatterCached(file, cache) == file.reads /\ ~file.parses /\ file.path \in cache

\* The front matter block of a file whose YAML does not parse, as words.
FrontMatterBlock == <<Words(4), Whitespace>>

\* The file as the scan sees it when matter answers from its cache.
CachedFile(file) ==
  [ file EXCEPT !.parses = TRUE,
                !.title = Undefined,
                !.fm = [published |-> Undefined, date |-> Undefined, cover |-> Undefined],
                !.body = FrontMatterBlock \o file.body ]

\* walkDir on the tree in a process whose matter.cache is cache.
RECURSIVE WalkTreeAgain(_, _, _)
WalkTreeAgain(entries, wordsPerMinute, cache) ==
  IF entries = <<>> THEN <<>>
  ELSE LET file == IF MatterCached(Head(entries), cache)
                   THEN CachedFile(Head(entries))
                   ELSE Head(entries)
       IN IF Caught(file) \/ SkipUnpublished(file.fm)
          THEN WalkTreeAgain(Tail(entries), wordsPerMinute, cache)
          ELSE <<TreeEntry(file, wordsPerMinute)>>
                 \o WalkTreeAgain(Tail(entries), wordsPerMinute, cache)

\* scanBlogPosts(docsDir, postsDir, wordsPerMinute) on a tree, in a process
\* that has scanned before.
scanTreeAgain(root, wordsPerMinute, cache) ==
  IF ~root.exists THEN <<>>
  ELSE ArraySort(WalkTreeAgain(root.entries, wordsPerMinute, cache))

\* A later scan of the same tree with the same arguments: transformIndexHtml,
\* load or handleHotUpdate after configResolved.
ScanTreeAgainStep ==
  /\ stage = "scanned"
  /\ Len(scanLog) < MaxScans
  /\ scanned' = scanTreeAgain(postsTree, pluginOptions.wordsPerMinute, matterCache)
  /\ matterCache' = MatterCacheAfter(postsTree, matterCache)
  /\ scanLog' = Append(scanLog, scanned')
  /\ UNCHANGED <<files, posts, document, loaded, stage, pluginVars, clientVars,
                 pluginOptions, postsTree, blogSidebar, walkStack>>

NextRescan == ScanTreeStep \/ ScanTreeAgainStep

SpecRescan == InitTree /\ [][NextRescan]_vars

\* C23: the scans of an unchanged tree with the same arguments return
\* collections that are equal entry for entry and in the same order.
C23_RescanReturnsTheSame ==
  \A i, j \in 1..Len(scanLog) : scanLog[i] = scanLog[j]

\* ------------------------------------- claims about the deferred patch

\* The update-and-reconcile cycles that have replaced the held tree and not
\* yet patched the sidebar.
CyclesInProgress == Len(microtasks) + Len(timers)

\* C24: between the step in which the blog-sidebar-update handler replaces
\* the held tree for an event and the step in which the patch for that event
\* runs, no handler replaces the held collection or tree for another event
\* and no patch of another event runs: at most one cycle is in progress and
\* no event handler starts while it is.
C24_CycleRunsToCompletion ==
  [][ /\ CyclesInProgress > 0 => ~(OnBlogSidebarUpdate \/ OnBlogPostsUpdate)
      /\ TimerFires => CyclesInProgress = 1 ]_vars

\* --------------------------------- the dev server watching a posts tree

\* The files of the watched trees: two posts, one whose front matter is no
\* valid YAML and one that cannot be read.
WatchFiles ==
  { Post(PathFoo, "Winter", "2024-01-01"),
    Post(PathBar, "Notes", "2024-02-01"),
    TreeFile(PathFoo,
             [ reads |-> TRUE, parses |-> FALSE, title |-> Undefined,
               fm |-> [published |-> Undefined, date |-> Undefined, cover |-> Undefined],
               body |-> <<Words(2)>> ]),
    TreeFile(PathBar,
             [ reads |-> FALSE, parses |-> FALSE, title |-> Undefined,
               fm |-> [published |-> Undefined, date |-> Undefined, cover |-> Undefined],
               body |-> <<>> ]) }
WatchWalks ==
  { w \in UNION {[1..k -> WatchFiles] : k \in 0..2} :
      \A i, j \in 1..Len(w) : i # j => w[i].path # w[j].path }

\* docsDir/postsDir as a scan finds it. lists is FALSE when
\* fs.readdirSync(fullPostsDir) throws: the directory may not be listed, or
\* it was removed after fs.existsSync returned true.
WatchTrees ==
  {[exists |-> FALSE, entries |-> <<>>, lists |-> FALSE]}
  \cup {[exists |-> TRUE, entries |-> w, lists |-> l] : w \in WatchWalks, l \in BOOLEAN}

\* What a hook call ends with when fs.readdirSync throws.
ListingError == [id |-> "Error", json |-> <<>>]

\* walkDir(fullPostsDir) throws at its first statement.
ListingThrows(root) == root.exists /\ ~root.lists

InitWatch ==
  /\ files = <<>>
  /\ postsDir = <<"blog", "/", "posts">>
  /\ posts = <<>>
  /\ InitPlugin
  /\ document = EmptyDocument
  /\ loaded = <<>>
  /\ stage = "start"
  /\ NoClient
  /\ pluginOptions = DefaultOptions
  /\ postsTree \in {t \in WatchTrees : ~ListingThrows(t)}
  /\ scanned = <<>>
  /\ blogSidebar = <<>>
  /\ matterCache = {}
  /\ scanLog = <<>>
  /\ walkStack = <<>>

\* configResolved on the tree: the dev server starts.
configResolvedOnTree ==
  /\ stage = "start"
  /\ ~ListingThrows(postsTree)
  /\ posts' = scanTree(postsTree, pluginOptions.wordsPerMinute)
  /\ matterCache' = MatterCacheAfter(postsTree, matterCache)
  /\ stage' = "serving"
  /\ lastHook' = Hook("configResolved", <<>>)
  /\ wsOut' = <<>>
  /\ loadOut' = NoSource
  /\ UNCHANGED <<files, postsDir, moduleGraph, document, loaded, clientVars,
                 pluginOptions, postsTree, scanned, blogSidebar, scanLog, walkStack>>

\* handleHotUpdate({ file, server }) on the tree: nothing in it catches what
\* scanBlogPosts throws.
handleHotUpdateOnTree(file) ==
  /\ stage = "serving"
  /\ lastHook' = Hook("handleHotUpdate", file)
  /\ IF HotUpdateApplies(file, postsDir)
     THEN IF ListingThrows(postsTree)
          THEN /\ loadOut' = ListingError
               /\ wsOut' = <<>>
               /\ UNCHANGED <<posts, moduleGraph, matterCache>>
          ELSE /\ posts' = scanTreeAgain(postsTree, pluginOptions.wordsPerMinute, matterCache)
               /\ matterCache' = MatterCacheAfter(postsTree, matterCache)
               /\ wsOut' =
                    << Message("blog-posts-update", posts'),
                       Message("blog-sidebar-update",
                               generateSidebarFromPosts(posts', pluginOptions.sidebar)) >>
               /\ moduleGraph' = [id \in ModuleIds |-> InvalidateModule(moduleGraph[id])]
               /\ loadOut' = NoSource
     ELSE /\ wsOut' = <<>>
          /\ loadOut' = NoSource
          /\ UNCHANGED <<posts, moduleGraph, matterCache>>
  /\ UNCHANGED <<files, postsDir, document, loaded, stage, clientVars,
                 pluginOptions, postsTree, scanned, blogSidebar, scanLog, walkStack>>

\* The tree changes on disk. What the last hook call returned and sent has
\* been taken by the dev server by then.
TreeChanges ==
  /\ stage = "serving"
  /\ \E t \in WatchTrees : postsTree' = t /\ t # postsTree
  /\ lastHook' = NoHook
  /\ wsOut' = <<>>
  /\ loadOut' = NoSource
  /\ UNCHANGED <<files, postsDir, posts, moduleGraph, document, loaded, stage,
                 clientVars, pluginOptions, scanned, blogSidebar, matterCache, scanLog,
                 walkStack>>

NextWatch ==
  \/ configResolvedOnTree
  \/ \E file \in EventFiles : handleHotUpdateOnTree(file)
  \/ TreeChanges

SpecWatch == InitWatch /\ [][NextWatch]_vars

\* C25: for a change to a .md file inside docsDir/postsDir, handleHotUpdate
\* returns without throwing, whatever fails during the rescan, and has sent
\* both events, carrying the scanned collection and the tree generated from
\* it.
C25_HotUpdateNeverThrows ==
  (HotUpdateCalled /\ Qualifying(lastHook.arg, postsDir)) =>
    /\ loadOut # ListingError
    /\ wsOut = << Message("blog-posts-update", posts),
                  Message("blog-sidebar-update",
                          generateSidebarFromPosts(posts, pluginOptions.sidebar)) >>

\* ------------------------------------------------ the walk, call by call

\* A post two directories below docsDir/postsDir.
PathDeep == <<"blog", "/", "posts", "/", "foo", "/", "2024", "/", "bar", ".md">>

\* A directory as fs.readdirSync finds it: lists is FALSE when the call
\* throws, entries are the fs.Dirent objects it returns, in order.
Directory(lists, entries) == [lists |-> lists, entries |-> entries]
EmptyDirectory == Directory(TRUE, <<>>)

\* An fs.Dirent: a regular file (ext: the end of its name), a directory, or
\* a symbolic link, for which isDirectory() and isFile() are both false,
\* whatever it points to.
FileEntry(file) == [kind |-> "file", ext |-> ".md", file |-> file, dir |-> EmptyDirectory]
OtherFileEntry ==
  [ kind |-> "file", ext |-> ".png", file |-> Post(PathBar, "", ""), dir |-> EmptyDirectory ]
SymlinkEntry ==
  [ kind |-> "symlink", ext |-> "", file |-> Post(PathBar, "", ""), dir |-> EmptyDirectory ]
DirEntry(dir) == [kind |-> "dir", ext |-> "", file |-> Post(PathBar, "", ""), dir |-> dir]

\* The subdirectories foo of docsDir/postsDir: with a post; with a post, and
\* below it a directory holding a post and a link back to docsDir/postsDir;
\* and one that may not be listed.
SubDirectories ==
  { Directory(TRUE, <<FileEntry(Post(PathFooIndex, "Spring", "2024-02-01"))>>),
    Directory(TRUE,
              << DirEntry(Directory(TRUE,
                                    << SymlinkEntry,
                                       FileEntry(Post(PathDeep, "Notes", "2024-01-01")) >>)),
                 FileEntry(Post(PathFooIndex, "Spring", "2024-02-01")) >>),
    Directory(FALSE, <<>>) }

\* What docsDir/postsDir holds itself.
RootEntries ==
  { FileEntry(f) : f \in WatchFiles }
  \cup {OtherFileEntry, SymlinkEntry}
  \cup { DirEntry(d) : d \in SubDirectories }

\* Most entries of docsDir/postsDir itself.
MaxDirEntries == 2

IsPostFile(entry) == entry.kind = "file" /\ entry.ext = ".md"

RootWalks ==
  { w \in UNION {[1..k -> RootEntries] : k \in 0..MaxDirEntries} :
      \A i, j \in 1..Len(w) :
        i # j => /\ w[i] # w[j]
                 /\ ~(w[i].kind = "dir" /\ w[j].kind = "dir")
                 /\ (IsPostFile(w[i]) /\ IsPostFile(w[j]))
                      => w[i].file.path # w[j].file.path }

\* The finite directory trees docsDir/postsDir can be.
DirTrees ==
  {[exists |-> FALSE, lists |-> FALSE, entries |-> <<>>]}
  \cup {[exists |-> TRUE, lists |-> l, entries |-> w] : l \in BOOLEAN, w \in RootWalks}

\* One call of walkDir: the directory and the position of the for loop in
\* its entries; 0 before fs.readdirSync has returned.
Frame(dir) == [dir |-> dir, at |-> 0]
TopFrame == walkStack[Len(walkStack)]
ReplaceTop(frame) == [walkStack EXCEPT ![Len(walkStack)] = frame]

\* The dev server is running and idle; it was started on an empty
\* docsDir/postsDir, which has changed since.
InitWalk ==
  /\ files = <<>>
  /\ postsDir = <<"blog", "/", "posts">>
  /\ posts = <<>>
  /\ InitPlugin
  /\ document = EmptyDocument
  /\ loaded = <<>>
  /\ stage = "serving"
  /\ NoClient
  /\ pluginOptions = DefaultOptions
  /\ postsTree \in DirTrees
  /\ scanned = <<>>
  /\ blogSidebar = <<>>
  /\ matterCache = {}
  /\ scanLog = <<>>
  /\ walkStack = <<>>

\* handleHotUpdate({ file, server }) is called: for a change it takes for a
\* post it enters scanBlogPosts, up to the call walkDir(fullPostsDir);
\* otherwise it returns at once.
StartHotUpdate(file) ==
  /\ stage = "serving"
  /\ lastHook' = Hook("handleHotUpdate", file)
  /\ wsOut' = <<>>
  /\ loadOut' = NoSource
  /\ IF HotUpdateApplies(file, postsDir)
     THEN /\ stage' = "scanning"
          /\ scanned' = <<>>
          /\ walkStack' =
               IF postsTree.exists
               THEN <<Frame(Directory(postsTree.lists, postsTree.entries))>>
               ELSE <<>>
     ELSE UNCHANGED <<stage, scanned, walkStack>>
  /\ UNCHANGED <<files, postsDir, posts, moduleGraph, document, loaded, clientVars,
                 pluginOptions, postsTree, blogSidebar, matterCache, scanLog>>

\* const entries = fs.readdirSync(dir, { withFileTypes: true })
ReadDir ==
  /\ stage = "scanning"
  /\ walkStack # <<>>
  /\ TopFrame.at = 0
  /\ TopFrame.dir.lists
  /\ walkStack' = ReplaceTop([TopFrame EXCEPT !.at = 1])
  /\ UNCHANGED <<files, postsDir, posts, document, loaded, stage, pluginVars,
                 clientVars, pluginOptions, postsTree, scanned, blogSidebar,
                 matterCache, scanLog>>

\* fs.readdirSync throws: the error leaves every walkDir call, scanBlogPosts
\* and handleHotUpdate.
ScanThrows ==
  /\ stage = "scanning"
  /\ walkStack # <<>>
  /\ TopFrame.at = 0
  /\ ~TopFrame.dir.lists
  /\ walkStack' = <<>>
  /\ stage' = "serving"
  /\ loadOut' = ListingError
  /\ UNCHANGED <<files, postsDir, posts, moduleGraph, lastHook, wsOut, document,
                 loaded, clientVars, pluginOptions, postsTree, scanned, blogSidebar,
                 matterCache, scanLog>>

\* One pass through the body of the for loop.
VisitEntry ==
  /\ stage = "scanning"
  /\ walkStack # <<>>
  /\ TopFrame.at \in 1..Len(TopFrame.dir.entries)
  /\ LET entry == TopFrame.dir.entries[TopFrame.at]
         advanced == ReplaceTop([TopFrame EXCEPT !.at = TopFrame.at + 1])
     IN IF entry.kind = "dir"
        THEN /\ walkStack' = Append(advanced, Frame(entry.dir))
             /\ UNCHANGED <<scanned, matterCache>>
        ELSE /\ walkStack' = advanced
             /\ IF IsPostFile(entry)
                THEN /\ scanned' = scanned \o
                          WalkTreeAgain(<<entry.file>>, pluginOptions.wordsPerMinute,
                                        matterCache)
                     /\ matterCache' =
                          MatterCacheAfter([exists |-> TRUE, entries |-> <<entry.file>>],
                                           matterCache)
                ELSE UNCHANGED <<scanned, matterCache>>
  /\ UNCHANGED <<files, postsDir, posts, document, loaded, stage, pluginVars,
                 clientVars, pluginOptions, postsTree, blogSidebar, scanLog>>

\* The for loop is over: walkDir returns to its caller.
ReturnFromWalkDir ==
  /\ stage = "scanning"
  /\ walkStack # <<>>
  /\ TopFrame.at > Len(TopFrame.dir.entries)
  /\ walkStack' = SubSeq(walkStack, 1, Len(walkStack) - 1)
  /\ UNCHANGED <<files, postsDir, posts, document, loaded, stage, pluginVars,
                 clientVars, pluginOptions, postsTree, scanned, blogSidebar,
                 matterCache, scanLog>>

\* The walk is over: scanBlogPosts sorts and returns, handleHotUpdate sends
\* both events, invalidates the modules and returns.
FinishHotUpdate ==
  /\ stage = "scanning"
  /\ walkStack = <<>>
  /\ posts' = ArraySort(scanned)
  /\ wsOut' =
       << Message("blog-posts-update", posts'),
          Message("blog-sidebar-update",
                  generateSidebarFromPosts(posts', pluginOptions.sidebar)) >>
  /\ moduleGraph' = [id \in ModuleIds |-> InvalidateModule(moduleGraph[id])]
  /\ stage' = "serving"
  /\ UNCHANGED <<files, postsDir, lastHook, loadOut, document, loaded, clientVars,
                 pluginOptions, postsTree, scanned, blogSidebar, matterCache, scanLog,
                 walkStack>>

\* The steps scanBlogPosts and handleHotUpdate take once entered.
ScanProgress ==
  ReadDir \/ ScanThrows \/ VisitEntry \/ ReturnFromWalkDir \/ FinishHotUpdate

NextWalk ==
  \/ \E file \in EventFiles : StartHotUpdate(file)
  \/ ReadDir
  \/ ScanThrows
  \/ VisitEntry
  \/ ReturnFromWalkDir
  \/ FinishHotUpdate

SpecWalk == InitWalk /\ [][NextWalk]_vars

\* The scan is synchronous code: once entered it keeps running.
SpecWalkFair == SpecWalk /\ WF_vars(ScanProgress)

\* C26: every change to a .md file inside docsDir/postsDir for which
\* handleHotUpdate starts to scan is eventually followed by the return of
\* handleHotUpdate with both events sent.
C26_ScanningReturnsToIdle ==
  (stage = "scanning") ~> (stage = "serving" /\ Len(wsOut) = 2)

\* ------------------------------------------ the sidebar built from files

\* A script in docsDir/postsDir: a regular file whose name ends with 'md'
\* but not with '.md'. It has no front matter.
PathBuildCmd == <<"blog", "/", "posts", "/", "build", ".cmd">>
CmdFileEntry ==
  [ kind |-> "file", ext |-> ".cmd",
    file |-> TreeFile(PathBuildCmd,
                      [ reads |-> TRUE, parses |-> TRUE, title |-> Undefined,
                        fm |-> [published |-> Undefined, date |-> Undefined,
                                cover |-> Undefined],
                        body |-> <<Words(3)>> ]),
    dir |-> EmptyDirectory ]

\* A post with the given title value and no date.
Undated(path, title) ==
  TreeFile(path,
           [ reads |-> TRUE, parses |-> TRUE, title |-> title,
             fm |-> [published |-> Undefined, date |-> Undefined, cover |-> Undefined],
             body |-> <<Words(5)>> ])

\* What docsDir/postsDir holds when the sidebar is built: titled posts, a
\* post without a title, a post with an empty title, a script, and
\* directories with posts.
SidebarRootEntries ==
  { FileEntry(Post(PathFoo, "Winter", "2024-01-01")),
    FileEntry(Undated(PathBar, Undefined)),
    FileEntry(Undated(PathBar, Str(""))),
    FileEntry(Undated(PathBar, Str("Notes"))),
    CmdFileEntry }
  \cup { DirEntry(d) : d \in {x \in SubDirectories : x.lists} }

SidebarRootWalks ==
  { w \in UNION {[1..k -> SidebarRootEntries] : k \in 0..MaxDirEntries} :
      \A i, j \in 1..Len(w) :
        i # j => /\ w[i].kind # "dir" \/ w[j].kind # "dir"
                 /\ w[i].file.path # w[j].file.path \/ w[i].kind = "dir"
                      \/ w[j].kind = "dir" }

\* The trees the sidebar is built from: every directory can be listed.
SidebarTrees ==
  {[exists |-> FALSE, lists |-> FALSE, entries |-> <<>>]}
  \cup {[exists |-> TRUE, lists |-> TRUE, entries |-> w] : w \in SidebarRootWalks}

\* new RegExp('^' + '*.md'.replace(/\*/g, '.*') + '$').test(entry.name): the
\* dot is not escaped, so a name of three or more characters that ends with
\* 'md' matches.
MatchesStarMd(entry) == entry.ext \in {".md", ".cmd"}

\* glob's walk(dir, patternIndex) for the pattern '<postsDir>/**/*.md' at its
\* last part, '*.md': the regular files of dir whose name matches.
WalkAtLastPart(entries) ==
  SelectSeq(entries, LAMBDA e : MatchesStarMd(e) /\ e.kind = "file")

\* glob's walk(dir, patternIndex) at the part '**': for a directory,
\* walk(fullPath, patternIndex) and then walk(fullPath, patternIndex + 1);
\* anything else is pushed when its name matches the next part.
RECURSIVE WalkAtStarStar(_)
WalkAtStarStar(entries) ==
  IF entries = <<>> THEN <<>>
  ELSE LET e == Head(entries) IN
       ( IF e.kind = "dir"
         THEN WalkAtStarStar(e.dir.entries) \o WalkAtLastPart(e.dir.entries)
         ELSE IF MatchesStarMd(e) THEN <<e>> ELSE <<>> )
       \o WalkAtStarStar(Tail(entries))

\* glob(postsPattern, docsDir): the files pushed to results, in order.
Glob(root) ==
  IF ~root.exists THEN <<>>
  ELSE LET found == WalkAtStarStar(root.entries)
       IN [i \in 1..Len(found) |-> found[i].file]

\* The post pushed for a file: title is frontmatter.title || 'Untitled',
\* date is frontmatter.date || ''.
StaticEntry(file) ==
  [ title |-> IF Truthy(file.title) THEN file.title ELSE Str("Untitled"),
    date |-> IF Truthy(file.fm.date) THEN file.fm.date ELSE Str(""),
    url |-> UrlOf(file.path),
    published |-> Bool(TRUE) ]

\* for (const file of files) { try { ... } catch { ... } }, in a process
\* whose matter.cache is cache: the posts pushed.
RECURSIVE StaticPosts(_, _)
StaticPosts(found, cache) ==
  IF found = <<>> THEN <<>>
  ELSE LET file == IF MatterCached(Head(found), cache)
                   THEN CachedFile(Head(found))
                   ELSE Head(found)
           after == MatterCacheAfter([exists |-> TRUE, entries |-> <<Head(found)>>], cache)
       IN IF Caught(file) \/ SkipUnpublished(file.fm)
          THEN StaticPosts(Tail(found), after)
          ELSE <<StaticEntry(file)>> \o StaticPosts(Tail(found), after)

\* generateBlogSidebarFromFiles(docsDir, { ...sidebarOptions, postsPattern })
generateBlogSidebarFromFiles(root, sidebarOptions, cache) ==
  LET sorted == ArraySort(StaticPosts(Glob(root), cache))
      recentPosts == SliceTo(sorted, sidebarOptions.recentPostsCount)
      blog == [ text |-> Str("Blog"),
                collapsed |-> Undefined,
                items |-> << [text |-> Str(sidebarOptions.allPostsLabel),
                              link |-> sidebarOptions.basePath] >> ]
      recent == [ text |-> Str(sidebarOptions.recentPostsLabel),
                  collapsed |-> Bool(sidebarOptions.recentPostsCollapsed),
                  items |-> [i \in 1..Len(recentPosts) |->
                               [text |-> recentPosts[i].title,
                                link |-> recentPosts[i].url]] ]
  IN IF Len(recentPosts) > 0 THEN <<blog, recent>> ELSE <<blog>>

\* The .md files walkDir reads, in walk order.
RECURSIVE WalkFiles(_)
WalkFiles(entries) ==
  IF entries = <<>> THEN <<>>
  ELSE LET e == Head(entries) IN
       ( IF e.kind = "dir" THEN WalkFiles(e.dir.entries)
         ELSE IF IsPostFile(e) THEN <<e.file>> ELSE <<>> )
       \o WalkFiles(Tail(entries))

InitStatic ==
  /\ files = <<>>
  /\ postsDir = <<"blog", "/", "posts">>
  /\ posts = <<>>
  /\ InitPlugin
  /\ document = EmptyDocument
  /\ loaded = <<>>
  /\ stage = "start"
  /\ NoClient
  /\ pluginOptions \in
       { DefaultOptions, [DefaultOptions EXCEPT !.sidebar.recentPostsCount = 1] }
  /\ postsTree \in SidebarTrees
  /\ scanned = <<>>
  /\ blogSidebar = <<>>
  /\ matterCache = {}
  /\ scanLog = <<>>
  /\ walkStack = <<>>

\* defineBlogConfig: the sidebar of the site configuration is generated.
GenerateFromFilesStep ==
  /\ stage = "start"
  /\ files' = Glob(postsTree)
  /\ blogSidebar' = generateBlogSidebarFromFiles(postsTree, pluginOptions.sidebar, matterCache)
  /\ matterCache' =
       MatterCacheAfter([exists |-> TRUE, entries |-> Glob(postsTree)], matterCache)
  /\ stage' = "configured"
  /\ UNCHANGED <<posts, document, loaded, pluginVars, clientVars, pluginOptions,
                 postsTree, scanned, scanLog, walkStack>>

\* The plugin builds the live tree from its scan of the same files:
\* transformIndexHtml embeds it.
transformIndexHtmlOnTree ==
  /\ stage = "configured"
  /\ scanned' = scanTreeAgain([exists |-> postsTree.exists,
                               entries |-> WalkFiles(postsTree.entries)],
                              pluginOptions.wordsPerMinute, matterCache)
  /\ matterCache' =
       MatterCacheAfter([exists |-> postsTree.exists,
                         entries |-> WalkFiles(postsTree.entries)], matterCache)
  /\ document' =
       [ posts |-> Block(StringifyPosts(scanned')),
         sidebar |-> Block(StringifySidebar(
                       generateSidebarFromPosts(scanned', pluginOptions.sidebar))) ]
  /\ lastHook' = Hook("transformIndexHtml", <<>>)
  /\ stage' = "serving"
  /\ UNCHANGED <<files, postsDir, posts, moduleGraph, wsOut, loadOut, loaded, clientVars,
                 pluginOptions, postsTree, blogSidebar, scanLog, walkStack>>

NextStatic == GenerateFromFilesStep \/ transformIndexHtmlOnTree

SpecStatic == InitStatic /\ [][NextStatic]_vars

\* ------------------------------------- claims about the sidebar from files

\* C27: for the same files and the same sidebar options, the tree
\* generateBlogSidebarFromFiles builds for the site configuration equals the
\* tree the plugin builds from its scan.
C27_StaticTreeEqualsLiveTree ==
  stage = "serving" => blogSidebar = document.sidebar.json

\* How often a path occurs in the file list.
Occurrences(found, path) == Cardinality({i \in 1..Len(found) : found[i].path = path})

\* C28: the file list computed inside generateBlogSidebarFromFiles holds each
\* .md file under docsDir/postsDir exactly once, whatever its depth, and no
\* post is listed twice in the recent group of the tree.
C28_EachFileGlobbedOnce ==
  stage # "start" =>
    /\ \A i \in 1..Len(WalkFiles(postsTree.entries)) :
         Occurrences(files, WalkFiles(postsTree.entries)[i].path) = 1
    /\ Len(blogSidebar) = 2 =>
         \A i, j \in 1..Len(blogSidebar[2].items) :
           i # j => blogSidebar[2].items[i].link # blogSidebar[2].items[j].link

\* ------------------------------------- claims about the registered handlers

\* The handlers hot.on has registered for an event: one behind each
\* hmrListenerRegistered flag that is set, and for blog-sidebar-update one
\* per BlogSidebar mounted, whose setupHmrListener has no flag.
RegisteredHandlers(event) ==
  IF event = "blog-posts-update"
  THEN IF postsListener THEN 1 ELSE 0
  ELSE (IF sidebarListener THEN 1 ELSE 0) + Len(sidebarItems)

\* C29: whatever consumers have been mounted, each event kind has at most one
\* registered handler, so that one event received replaces state once.
C29_OneHandlerPerEvent ==
  /\ RegisteredHandlers("blog-posts-update") <= 1
  /\ RegisteredHandlers("blog-sidebar-update") <= 1

\* ------------------------------------- claims about the patched recent group

\* C30: after a blog-sidebar-update event has been handled and its patch has
\* run, the rendered recent group lists exactly the items of the new tree's
\* recent group, as many and in the same order; it is not rendered when the
\* new tree has none.
C30_RecentGroupListsNewItems ==
  Patched =>
    LET label == pluginOptions.sidebar.recentPostsLabel
        s == LabelledSectionIndex(lastStep.data, label)
        g == LabelledGroupIndex(sidebarDom, label)
    IN IF s = 0 THEN g = 0
       ELSE /\ g # 0
            /\ Len(sidebarDom[g].items) = Len(lastStep.data[s].items)
            /\ \A i \in 1..Min(Len(sidebarDom[g].items), Len(lastStep.data[s].items)) :
                 /\ sidebarDom[g].items[i].text = lastStep.data[s].items[i].text.v
                 /\ PointsTo(sidebarDom[g].items[i].href, lastStep.data[s].items[i].link)

====
